---- MODULE Spec2Model ----
(***************************************************************************)
(* The worker-decoupled NV12 relay of src/m2.cpp: a capture thread whose   *)
(* appsink callback enqueues frame buffers on a GAsyncQueue, N worker      *)
(* threads that pop them, run the accelerator round trip and push a fresh  *)
(* output buffer to appsrc, the status timer, and main's start-up and      *)
(* shutdown sequence.                                                      *)
(***************************************************************************)
EXTENDS Integers, Sequences, FiniteSets, TLC

\* ---------------------------------------------------------------- bounds
MaxWorkers == 2
MaxFrames == 2
\* failures and drops the environment causes in one run
MaxFaults == 1
\* calls of initialize_shared_opencl_context on one session
MaxSessionCalls == 5
\* longest transfer queue a status tick looks at
MaxBacklog == 6
\* frames of each kind (delivered, rejected by appsrc, failed on the host,
\* failed on the device) handled before a status tick
MaxHandled == 1

Workers == 0..(MaxWorkers - 1)

\* ------------------------------------------------------ buffers and sizes
NoBuf == 0
\* the output buffer a worker allocates for input frame f
OutBuf(f) == 0 - f
\* the input frame output buffer b was made for
FrameOf(b) == 0 - b

\* geometry of the caps the capture pipeline negotiates (a small stand-in for
\* 1920x1080; the odd product exercises the integer division of uv_size)
Geometry == [width |-> 3, height |-> 3]
NoVideoInfo == [width |-> 0, height |-> 0]

\* a default-constructed cl:: wrapper, and SharedOpenCLContext{}
NullHandle == 0
NoSession == [device |-> NullHandle, context |-> NullHandle,
              program |-> NullHandle]
\* One element of g_new0(WorkerOpenCLContext, num_workers): zeroed memory, so
\* every cl::Buffer wraps no buffer and the watermark is 0
ZeroedContext ==
    [initialized |-> FALSE, buffer_size |-> 0,
     img_y_in_buffer |-> NullHandle, img_y_ref_buffer |-> NullHandle,
     img_y_out_buffer |-> NullHandle]

YSize(vi) == vi.width * vi.height
UVSize(vi) == (vi.width * vi.height) \div 2
NeedSize(vi) == YSize(vi) + UVSize(vi)

\* payload sizes of the frames the capture source delivers in a run: one byte
\* short of the cached geometry's need, and exact
FrameSizes == {NeedSize(Geometry) - 1, NeedSize(Geometry)}

\* the geometries the validation is checked for: the stand-in, the default
\* 1920x1080 and 3840x2160
Geometries == {Geometry, [width |-> 1920, height |-> 1080],
               [width |-> 3840, height |-> 2160]}
\* payload sizes around the need of geometry g
GeomFrameSizes(g) == {NeedSize(g) - 1, NeedSize(g), NeedSize(g) + 1}

VARIABLES
    main_pc,            \* position of main()
    main_i,             \* main's loop index i (thread creation, join)
    num_workers,        \* d.num_workers
    stop,               \* d.stop
    shared_initialized, \* d.shared_opencl.initialized
    shared_opencl,      \* d.shared_opencl: device, context, program
    contexts_allocated, \* d.worker_opencl_contexts != nullptr
    work_q,             \* contents of d.work_q, head first
    q_live,             \* d.work_q has not been unreferenced
    video_info_valid,   \* d.video_info_valid
    video_info,         \* d.video_info (width, height)
    ctr,                \* d.ctr
    sink_playing,       \* capture pipeline (sink_pipe) is PLAYING
    src_playing,        \* streaming pipeline (src_pipe) is PLAYING
    cap_pc,             \* position of the capture streaming thread
    cap_buf,            \* the buffer that thread is carrying
    cb_ret,             \* last return value of new_sample_cb
    nextFrame,          \* number of the next frame the camera produces
    lastFrame,          \* number of the last frame it produces in this run
    frame_size,         \* payload size of the camera's buffers in this run
    caps,               \* width and height of the caps on appsink's pad
    wpc,                \* position of each worker thread
    w_in,               \* each worker's inbuf
    w_out,              \* each worker's outbuf
    ctx,                \* d.worker_opencl_contexts[i]
    accel_err,          \* the cl_int the round trip of this iteration returned
    heap,               \* every GstBuffer allocated so far: refcount and size
    dblfree,            \* buffers unreferenced when their refcount was 0
    mapped,             \* buffers with an outstanding gst_buffer_map
    sinkq,              \* buffers appsrc accepted and has not yet passed on
    pushLog,            \* buffers pushed on work_q, in push order
    popLog,             \* buffers popped from work_q, in pop order
    lostLog,            \* buffers handed to g_async_queue_push after the unref
    faults,             \* failures and drops that have happened so far
    prev,               \* status_tick's static prev_* values
    status,             \* processing_status of the last status_tick
    clahe,              \* the file-processing program (CLAHECompare.cpp)
    rtc                 \* the WebRTC senders (src/webrtc)

vars == <<main_pc, main_i, num_workers, stop, shared_initialized,
          shared_opencl, contexts_allocated, work_q, q_live,
          video_info_valid, video_info,
          ctr, sink_playing, src_playing, cap_pc, cap_buf, cb_ret, nextFrame,
          lastFrame, frame_size, caps, wpc, w_in, w_out, ctx, accel_err,
          heap, dblfree,
          mapped,
          sinkq, pushLog, popLog, lostLog, faults, prev, status, clahe,
          rtc>>

mainVars == <<main_pc, main_i, num_workers, stop, shared_initialized,
              shared_opencl, contexts_allocated, q_live, sink_playing,
              src_playing>>
capVars == <<cap_pc, cap_buf, cb_ret, nextFrame, lastFrame, frame_size,
             caps>>
workerVars == <<wpc, w_in, w_out, ctx, accel_err>>
statusVars == <<prev, status>>
videoVars == <<video_info_valid, video_info>>
queueVars == <<work_q, pushLog, popLog, lostLog>>
bufVars == <<heap, dblfree, mapped>>

\* ------------------------------------------------------------- counters
CounterNames == {"cam_out_frames", "cam_out_bytes", "qcam_out_frames",
                 "qcam_out_bytes", "appsink_in_frames", "appsink_in_bytes",
                 "enqueued_frames", "enqueued_bytes", "processed_frames",
                 "processed_bytes", "after_src_frames", "after_src_bytes",
                 "encoder_in_frames", "encoder_in_bytes", "push_failures",
                 "processing_errors", "opencl_errors"}

\* a fetch_add that subtracts
FetchSub(c, k, n) == [c EXCEPT ![k] = @ - n]
\* std::atomic<uint64_t>::fetch_add(n)
FetchAdd(c, k, n) == [c EXCEPT ![k] = @ + n]

\* a probe that forgets the frame count
CheckpointBytesOnly(c, kf, kb, size) == FetchAdd(c, kb, size)
\* a probe: one frame and its size on the checkpoint's frame/byte pair
Checkpoint(c, kf, kb, size) == FetchAdd(FetchAdd(c, kf, 1), kb, size)

\* ------------------------------------------------------------ GstBuffer
\* The contents of a buffer: y names the luma plane (what it is and of which
\* frame), uv is the byte every chroma sample of the frame holds.
\* Memory nobody has written yet:
UninitPlane == <<"uninitialized", 0>>
UninitByte == 0 - 1
\* GST_CLOCK_TIME_NONE
ClockTimeNone == 0 - 1
\* memset(out_map_info.data + y_size, 128, uv_size)
NeutralChroma == 128
\* the chroma byte of camera frame f: a scene in colour, away from neutral
CameraChroma(f) == 128 + f
\* gst_buffer_new_allocate / a buffer arriving from the pool: one reference
Allocate(h, b, size) ==
    (b :> [refs |-> 1, size |-> size, y |-> UninitPlane, uv |-> UninitByte,
           pts |-> ClockTimeNone, dts |-> ClockTimeNone,
           duration |-> ClockTimeNone]) @@ h
\* what v4l2src puts in buffer f: the luma plane of frame f, its chroma
\* plane and the capture timestamps
CameraFrame(h, f) ==
    [h EXCEPT ![f].y = <<"Y", f>>, ![f].uv = CameraChroma(f),
              ![f].pts = f, ![f].dts = f, ![f].duration = 1]
\* equalizeHist_accel on luma plane y_in, as enqueueReadBuffer returns it
Equalized(y_in) == <<"equalizeHist", y_in[2]>>
\* memcpy of y_plane_out, memset of the UV bytes to 128, and PTS, DTS and
\* DURATION set to GST_CLOCK_TIME_NONE
Compose(h, out, y_plane_out) ==
    [h EXCEPT ![out].y = y_plane_out, ![out].uv = NeutralChroma,
              ![out].pts = ClockTimeNone, ![out].dts = ClockTimeNone,
              ![out].duration = ClockTimeNone]
\* gst_buffer_ref
Ref(h, b) == [h EXCEPT ![b].refs = @ + 1]
\* a buffer whose last reference is gone: its memory is back with the
\* allocator and holds nothing the program can rely on
Freed(buf) ==
    [refs |-> 0, size |-> buf.size, y |-> UninitPlane, uv |-> UninitByte,
     pts |-> ClockTimeNone, dts |-> ClockTimeNone,
     duration |-> ClockTimeNone]
\* gst_buffer_unref: one reference less, and the buffer is freed with the
\* last one
Unref(h, b) ==
    IF h[b].refs > 1 THEN [h EXCEPT ![b].refs = @ - 1]
    ELSE [h EXCEPT ![b] = Freed(@)]
\* gst_buffer_unref on a buffer that is already destroyed
OverRelease(h, d, b) == IF h[b].refs = 0 THEN d \cup {b} ELSE d

\* ---------------------------------------------------------- GAsyncQueue
\* a push on a bounded queue, which drops the item when the queue is full
QPushBounded(q, b) == IF Len(q) >= 5 THEN q ELSE Append(q, b)
\* a push at the head of the queue
QPushFront(q, b) == <<b>> \o q
\* g_async_queue_push
QPush(q, b) == Append(q, b)
\* a pop that leaves the item in the queue
QPopKeep(q) == q
\* g_async_queue_timeout_pop / g_async_queue_try_pop: the queue after the pop
QPop(q) == Tail(q)
\* g_async_queue_length
QLength(q) == Len(q)

\* CustomData d{} and the counters after construction
\* ------------------------------------------- the file-processing program
\* CLAHECompare.cpp: sink_pipeline (file, decode, appsink), new_sample_cb,
\* src_pipeline (appsrc, encoder, udp / mp4), one bus watch on each
\* pipeline's bus, g_main_loop_run.  clahe holds CustomData's fields and the
\* state of the two pipelines:
\*   pc                "run" while g_main_loop_run runs, "quit" once
\*                     g_main_loop_quit was called, "null" after main has
\*                     set both pipelines to GST_STATE_NULL
\*   pos               frames the input file has delivered in this pass
\*   in_eos, out_eos   the pipeline has posted its EOS message
\*   appsrc_eos        gst_app_src_end_of_stream was called
\*   sink_bus, src_bus messages <<type, source>> waiting on each bus
\*   seeks, posted, errors  seeks done, messages posted by elements, and
\*                     how many of those were ERROR messages
FileFrames == 2
MaxSeeks == 1
MaxPosted == 2

\* data.frame_duration in the units current_timestamp is counted in
FrameDuration == 1

\* main after argument parsing (--loop or not) and data's initialisation
ClaheStart(loop_playback) ==
    [pc |-> "run", loop_playback |-> loop_playback,
     got_in_eos |-> FALSE, got_out_eos |-> FALSE, appsrc_eos |-> FALSE,
     frame_count |-> 0, current_timestamp |-> 0,
     pos |-> 0, in_eos |-> FALSE, out_eos |-> FALSE,
     sink_bus |-> <<>>, src_bus |-> <<>>,
     seeks |-> 0, posted |-> 0, errors |-> 0]

\* if (data->loop) g_main_loop_quit(data->loop);
MainLoopQuit(c) == [c EXCEPT !.pc = "quit"]

\* bus_message_cb for a message of the given type and source.  seek_ok is
\* the result of gst_element_seek_simple, which flushes the input pipeline
\* and restarts the file.
bus_message_cb(c, type, src, seek_ok) ==
    CASE type = "EOS" /\ src = "sink_pipeline" ->
           IF c.loop_playback
           THEN IF seek_ok
                THEN [c EXCEPT !.got_in_eos = TRUE, !.current_timestamp = 0,
                               !.pos = 0, !.in_eos = FALSE,
                               !.seeks = @ + 1]
                ELSE MainLoopQuit([c EXCEPT !.got_in_eos = TRUE,
                                            !.current_timestamp = 0])
           ELSE [c EXCEPT !.got_in_eos = TRUE, !.appsrc_eos = TRUE]
      [] type = "EOS" /\ src = "src_pipeline" ->
           MainLoopQuit([c EXCEPT !.got_out_eos = TRUE])
      [] type = "EOS" /\ src \notin {"sink_pipeline", "src_pipeline"} ->
           IF ~c.loop_playback THEN MainLoopQuit(c) ELSE c
      [] type = "ERROR" -> MainLoopQuit(c)
      [] OTHER -> c

\* ------------------------------------------------ the WebRTC senders
\* src/webrtc holds three senders that signal over a WebSocket: sender.cpp
\* (struct App with ws_ready and offer_sent), and vad.cpp and vadcamera.cpp
\* (globals, the same handlers).  rtc holds the program's state as main
\* leaves it before g_main_loop_run: the WebSocket connect is under way
\* (ws_conn is NULL until it finishes); sender.cpp has set its pipeline to
\* PAUSED, the other two to PLAYING.  pending counts the create-offer
\* promises webrtcbin has not answered yet; requests, sent and dropped count
\* create-offer requests, offer messages written to the WebSocket and offer
\* messages the send function gave up on.
RtcStart(prog) ==
    [prog |-> prog, ws |-> "connecting", ws_ready |-> FALSE,
     offer_sent |-> FALSE,
     pipeline |-> IF prog = "sender.cpp" THEN "PAUSED" ELSE "PLAYING",
     pending |-> 0, requests |-> 0, sent |-> 0, dropped |-> 0,
     negotiations |-> 0, messages |-> 0, quit |-> FALSE]

InitState ==
    /\ main_pc = "start"
    /\ main_i = 0
    /\ stop = FALSE
    /\ shared_initialized = FALSE
    /\ shared_opencl = NoSession
    /\ contexts_allocated = FALSE
    /\ work_q = <<>>
    /\ q_live = TRUE
    /\ video_info_valid = FALSE
    /\ video_info = NoVideoInfo
    /\ ctr = [k \in CounterNames |-> 0]
    /\ sink_playing = FALSE
    /\ src_playing = FALSE
    /\ cap_pc = "idle"
    /\ cap_buf = NoBuf
    /\ cb_ret = "NONE"
    /\ nextFrame = 1
    /\ wpc = [w \in Workers |-> "none"]
    /\ w_in = [w \in Workers |-> NoBuf]
    /\ w_out = [w \in Workers |-> NoBuf]
    /\ ctx = [w \in Workers |-> ZeroedContext]
    /\ accel_err = [w \in Workers |-> "CL_SUCCESS"]
    /\ heap = <<>>
    /\ dblfree = {}
    /\ mapped = {}
    /\ sinkq = <<>>
    /\ pushLog = <<>>
    /\ popLog = <<>>
    /\ lostLog = <<>>
    /\ faults = 0
    /\ prev = [cam_out |-> 0, apps_in |-> 0, processed |-> 0,
               encoder_in |-> 0, encoder_bytes |-> 0]
    /\ status = "NONE"

\* the state after construction: --workers, and what the camera delivers
Init ==
    /\ InitState
    /\ clahe = ClaheStart(FALSE)
    /\ rtc = RtcStart("sender.cpp")
    /\ num_workers \in 1..MaxWorkers
    /\ caps = Geometry
    /\ frame_size \in FrameSizes
    /\ lastFrame = MaxFrames

\* n more failures or drops happen in this step, if the run's budget allows
Fault(n) == faults + n <= MaxFaults /\ faults' = faults + n

\* ------------------------------------------------ capture streaming thread
\* the five pad probes: one frame and its size on the probe's counters
probe_cam_out(c, size) == Checkpoint(c, "cam_out_frames", "cam_out_bytes", size)
probe_qcam_out(c, size) ==
    Checkpoint(c, "qcam_out_frames", "qcam_out_bytes", size)
probe_apps_sink(c, size) ==
    Checkpoint(c, "appsink_in_frames", "appsink_in_bytes", size)
probe_after_appsrc_queue(c, size) ==
    Checkpoint(c, "after_src_frames", "after_src_bytes", size)
probe_encoder_sink(c, size) ==
    Checkpoint(c, "encoder_in_frames", "encoder_in_bytes", size)

\* A frame leaves v4l2src and crosses q_cam's sink pad (probe_cam_out).
\* q_cam (leaky=downstream) drops it, or it crosses q_cam's src pad
\* (probe_qcam_out) and appsink's sink pad (probe_apps_sink) and appsink
\* emits new-sample.  The probes touch only their own counters, so the
\* frame's way to the callback is one step.
CaptureFrame ==
    /\ sink_playing
    /\ cap_pc = "idle"
    /\ nextFrame <= lastFrame
    /\ nextFrame' = nextFrame + 1
    /\ \/ /\ Fault(1)
          /\ ctr' = probe_cam_out(ctr, frame_size)
          /\ heap' = Unref(CameraFrame(Allocate(heap, nextFrame, frame_size),
                                       nextFrame), nextFrame)
          /\ UNCHANGED <<cap_pc, cap_buf>>
       \/ /\ Fault(0)
          /\ ctr' = probe_apps_sink(
                        probe_qcam_out(probe_cam_out(ctr, frame_size),
                                       frame_size), frame_size)
          /\ heap' = CameraFrame(Allocate(heap, nextFrame, frame_size),
                                 nextFrame)
          /\ cap_buf' = nextFrame
          /\ cap_pc' = "new_sample"
    /\ UNCHANGED <<mainVars, workerVars, statusVars, videoVars, queueVars,
                   dblfree, mapped, sinkq, cb_ret, frame_size, caps,
                   lastFrame>>
    /\ UNCHANGED <<clahe, rtc>>

\* a callback that parses the caps of every sample
CacheAlways(valid) == TRUE
\* if (!d->video_info_valid): the caps are parsed only while nothing is cached
CacheNeeded(valid) == ~valid

\* new_sample_cb up to and including g_async_queue_push.  pulled = FALSE is
\* gst_app_sink_pull_sample (or gst_sample_get_buffer) returning NULL;
\* caps_ok is gst_sample_get_caps and gst_video_info_from_caps succeeding.
\* Once main has unreferenced the queue and stored nullptr in d.work_q, the
\* callback hands its reference to a queue that no longer exists: the buffer
\* is appended nowhere and its reference is never given back.
NewSampleCbPush ==
    /\ cap_pc = "new_sample"
    /\ \E pulled \in BOOLEAN, caps_ok \in BOOLEAN :
         Fault(IF ~pulled \/ (CacheNeeded(video_info_valid) /\ ~caps_ok)
               THEN 1 ELSE 0) /\
         IF ~pulled
         THEN /\ heap' = Unref(heap, cap_buf)
              /\ cb_ret' = "GST_FLOW_ERROR"
              /\ cap_pc' = "idle"
              /\ cap_buf' = NoBuf
              /\ UNCHANGED <<videoVars, queueVars>>
         ELSE /\ IF CacheNeeded(video_info_valid) /\ caps_ok
                 THEN /\ video_info_valid' = TRUE
                      /\ video_info' = caps
                 ELSE UNCHANGED videoVars
              /\ heap' = Ref(heap, cap_buf)
              /\ IF q_live
                 THEN /\ work_q' = QPush(work_q, cap_buf)
                      /\ pushLog' = Append(pushLog, cap_buf)
                      /\ lostLog' = lostLog
                 ELSE /\ lostLog' = Append(lostLog, cap_buf)
                      /\ UNCHANGED <<work_q, pushLog>>
              /\ popLog' = popLog
              /\ cap_pc' = "enqueued"
              /\ UNCHANGED <<cap_buf, cb_ret>>
    /\ UNCHANGED <<mainVars, workerVars, statusVars, ctr, dblfree, mapped,
                   sinkq, nextFrame, frame_size, caps, lastFrame>>
    /\ UNCHANGED <<clahe, rtc>>

\* new_sample_cb after the push: the enqueued counters, gst_sample_unref,
\* return GST_FLOW_OK.
NewSampleCbCount ==
    /\ cap_pc = "enqueued"
    /\ ctr' = Checkpoint(ctr, "enqueued_frames", "enqueued_bytes",
                         heap[cap_buf].size)
    /\ heap' = Unref(heap, cap_buf)
    /\ cb_ret' = "GST_FLOW_OK"
    /\ cap_pc' = "idle"
    /\ cap_buf' = NoBuf
    /\ UNCHANGED <<mainVars, workerVars, statusVars, videoVars, queueVars,
                   dblfree, mapped, sinkq, nextFrame, frame_size, caps,
                   lastFrame, faults>>
    /\ UNCHANGED <<clahe, rtc>>

\* ----------------------------------------------------------- worker threads
\* every worker on the first context of the array
ContextZero(worker_id) == 0
\* WorkerOpenCLContext* ctx = &d->worker_opencl_contexts[worker_id]: the
\* index of the context worker worker_id works on
ContextOf(worker_id) == worker_id

\* What initialize_worker_opencl_context can do.  "ok": command queue and
\* kernel are created, the context is marked initialized, return true.
\* "exception": the std::exception handler returns false.  "gerror": the
\* GError handler prints and has no return statement, so control flows off
\* the end of a function that returns bool.
InitOutcomes == {"ok", "exception", "gerror"}

initialize_worker_opencl_context(c, outcome) ==
    IF outcome = "ok" THEN [c EXCEPT !.initialized = TRUE] ELSE c

\* if (!initialize_worker_opencl_context(...)) return nullptr;
EnterLoop(ret) == IF ret THEN "loop" ELSE "exited"

\* The process is gone: no thread that was running takes another step.
ProcessAbort ==
    /\ main_pc' = "crashed"
    /\ cap_pc' = "crashed"
    /\ wpc' = [v \in Workers |->
                 IF wpc[v] \in {"none", "exited"} THEN wpc[v] ELSE "crashed"]
    /\ sink_playing' = FALSE
    /\ src_playing' = FALSE

\* The head of worker_thread_fn, up to the loop.  After the GError handler
\* the caller reads a return value that was never set, true or false, or the
\* process does not survive flowing off the end of the function.
WorkerInit(w) ==
    /\ wpc[w] = "init"
    /\ \E outcome \in InitOutcomes, ret \in BOOLEAN, survives \in BOOLEAN :
         /\ Fault(IF outcome = "ok" THEN 0 ELSE 1)
         /\ outcome = "ok" => (ret /\ survives)
         /\ outcome = "exception" => (~ret /\ survives)
         /\ ctx' = [ctx EXCEPT ![ContextOf(w)] =
                      initialize_worker_opencl_context(@, outcome)]
         /\ IF survives
            THEN /\ wpc' = [wpc EXCEPT ![w] = EnterLoop(ret)]
                 /\ UNCHANGED <<main_pc, cap_pc, sink_playing, src_playing>>
            ELSE /\ ~ret
                 /\ ProcessAbort
    /\ UNCHANGED <<main_i, num_workers, shared_opencl, stop,
                   shared_initialized,
                   contexts_allocated, q_live, cap_buf, cb_ret, nextFrame,
                   frame_size, caps, lastFrame, statusVars, videoVars,
                   queueVars,
                   bufVars, ctr, sinkq, w_in, w_out, accel_err>>
    /\ UNCHANGED <<clahe, rtc>>

\* a loop condition that does not look at the flag
LoopConditionIgnoresStop(flag) == TRUE
\* while (!d->stop.load(std::memory_order_acquire))
LoopCondition(flag) == ~flag

\* while (!d->stop.load()): leave the loop and run
\* cleanup_worker_opencl_context, or go on to the timed pop.
WorkerLoop(w) ==
    /\ wpc[w] = "loop"
    /\ IF ~LoopCondition(stop)
       THEN /\ ctx' = [ctx EXCEPT ![ContextOf(w)].initialized = FALSE]
            /\ wpc' = [wpc EXCEPT ![w] = "exited"]
       ELSE /\ ctx' = ctx
            /\ wpc' = [wpc EXCEPT ![w] = "pop"]
    /\ UNCHANGED <<mainVars, capVars, statusVars, videoVars, queueVars,
                   bufVars, ctr, sinkq, w_in, w_out, accel_err, faults>>
    /\ UNCHANGED <<clahe, rtc>>

\* One early exit of the loop body that unmaps (when mapped) and releases
\* inbuf b, adds one to counter k (k = "" adds nothing) and continues.
DropInput(w, b, k) ==
    /\ heap' = Unref(heap, b)
    /\ dblfree' = OverRelease(heap, dblfree, b)
    /\ mapped' = mapped \ {b}
    /\ ctr' = IF k = "" THEN ctr ELSE FetchAdd(ctr, k, 1)
    /\ w_in' = [w_in EXCEPT ![w] = NoBuf]
    /\ wpc' = [wpc EXCEPT ![w] = "loop"]

\* cl::Buffer(shared_ctx->context, flags, y_size): the new device buffer mem
\* or, when clCreateBuffer fails, a wrapper around no buffer.  cl2.hpp is
\* included without CL_HPP_ENABLE_EXCEPTIONS and no error pointer is passed,
\* so the failure is not reported to the caller.
ClBuffer(mem, created) == IF created THEN mem ELSE NullHandle
\* the results of the three clCreateBuffer calls of one allocation
CreateResults == BOOLEAN \X BOOLEAN \X BOOLEAN
AllCreated == <<TRUE, TRUE, TRUE>>
Max(a, b) == IF a >= b THEN a ELSE b
\* a cl_mem no buffer of context c has had
FreshMem(c) ==
    1 + Max(c.img_y_in_buffer, Max(c.img_y_ref_buffer, c.img_y_out_buffer))
\* if (ctx->buffer_size == y_size && ctx->img_y_in_buffer() != nullptr)
BuffersAllocated(c, y_size) ==
    c.buffer_size = y_size /\ c.img_y_in_buffer # NullHandle
\* allocate_worker_opencl_buffers: nothing to do when the watermark matches
\* and the input buffer exists, else three new device buffers and the new
\* watermark
allocate_worker_opencl_buffers(c, y_size, mem, made) ==
    IF BuffersAllocated(c, y_size) THEN c
    ELSE [c EXCEPT !.img_y_in_buffer = ClBuffer(mem, made[1]),
                   !.img_y_ref_buffer = ClBuffer(mem, made[2]),
                   !.img_y_out_buffer = ClBuffer(mem, made[3]),
                   !.buffer_size = y_size]
\* the kernel has its three device buffers
BuffersReady(c) ==
    /\ c.img_y_in_buffer # NullHandle
    /\ c.img_y_ref_buffer # NullHandle
    /\ c.img_y_out_buffer # NullHandle

\* a size test that also rejects a buffer of exactly the needed size
TooSmallOffByOne(size, y_size, uv_size) == size <= y_size + uv_size
\* if (map_info.size < y_size + uv_size)
TooSmall(size, y_size, uv_size) == size < y_size + uv_size

\* g_async_queue_timeout_pop(50 ms): NULL after the timeout when the queue
\* stayed empty (if (!item) continue), or the head of the queue, and then the
\* loop body from gst_buffer_map to allocate_worker_opencl_buffers, which
\* touches nothing another thread uses but the counters.  map_ok is
\* gst_buffer_map succeeding, alloc_ok is allocate_worker_opencl_buffers
\* returning true.  A clCreateBuffer that fails inside it goes unnoticed
\* here and shows as a round trip that fails (WorkerAccel's
\* "cl_error_ignored"); what the allocation itself does for each result of
\* clCreateBuffer is explored in SpecAlloc.
WorkerPop(w) ==
    /\ wpc[w] = "pop"
    /\ IF work_q = <<>>
       THEN /\ wpc' = [wpc EXCEPT ![w] = "loop"]
            /\ UNCHANGED <<w_in, work_q, popLog, bufVars, ctr, ctx, faults>>
       ELSE /\ work_q' = QPop(work_q)
            /\ popLog' = Append(popLog, Head(work_q))
            /\ \E map_ok \in BOOLEAN, alloc_ok \in BOOLEAN :
                 Fault(IF ~map_ok THEN 1
                       ELSE IF ~video_info_valid THEN 0
                       ELSE IF TooSmall(heap[Head(work_q)].size,
                                        YSize(video_info), UVSize(video_info))
                       THEN 0
                       ELSE IF ~alloc_ok THEN 1 ELSE 0) /\
                 IF ~map_ok
                 THEN DropInput(w, Head(work_q), "processing_errors")
                      /\ ctx' = ctx
                 ELSE IF ~video_info_valid
                 THEN DropInput(w, Head(work_q), "") /\ ctx' = ctx
                 ELSE IF TooSmall(heap[Head(work_q)].size,
                                  YSize(video_info), UVSize(video_info))
                 THEN DropInput(w, Head(work_q), "processing_errors")
                      /\ ctx' = ctx
                 ELSE IF ~alloc_ok
                 THEN DropInput(w, Head(work_q), "opencl_errors")
                      /\ ctx' = ctx
                 ELSE /\ w_in' = [w_in EXCEPT ![w] = Head(work_q)]
                      /\ mapped' = mapped \cup {Head(work_q)}
                      /\ ctx' = [ctx EXCEPT ![ContextOf(w)] =
                                   allocate_worker_opencl_buffers(
                                       @, YSize(video_info), FreshMem(@),
                                       AllCreated)]
                      /\ wpc' = [wpc EXCEPT ![w] = "accel"]
                      /\ UNCHANGED <<heap, dblfree, ctr>>
    /\ UNCHANGED <<mainVars, capVars, statusVars, videoVars, sinkq, w_out,
                   accel_err, pushLog, lostLog>>
    /\ UNCHANGED <<clahe, rtc>>

\* The accelerator round trip (setArg, enqueueWriteBuffer, enqueueTask,
\* finish, enqueueReadBuffer) and what follows it up to the push: the output
\* buffer, the unref of inbuf and processed_frames / processed_bytes.  These
\* touch only the worker's own buffers and the counters.
\* The round trip returns, or the inner handler (catch GError: continue)
\* runs, or a std::exception reaches the outer handler (unref inbuf,
\* processing_errors, next iteration).  After a round trip that returned,
\* gst_buffer_new_allocate or gst_buffer_map of the output buffer may fail.
\* cl2.hpp is included without CL_HPP_ENABLE_EXCEPTIONS: a failing setArg,
\* enqueueWriteBuffer, enqueueTask, finish or enqueueReadBuffer returns its
\* cl_int, which the code does not look at ("cl_error_ignored"), and the
\* iteration goes on with whatever y_plane_out holds.  With a device buffer
\* missing the calls that use it fail in this way.
AccelOutcomes == {"ok", "cl_error_ignored", "gerror", "exception",
                  "out_alloc_failed", "out_map_failed"}

WorkerAccel(w) ==
    /\ wpc[w] = "accel"
    /\ \E outcome \in AccelOutcomes :
         (outcome = "ok" => BuffersReady(ctx[ContextOf(w)])) /\
         Fault(IF outcome = "ok" THEN 0
               ELSE IF outcome = "cl_error_ignored"
                       /\ ~BuffersReady(ctx[ContextOf(w)])
               THEN 0 ELSE 1) /\
         CASE outcome = "gerror" ->
                /\ wpc' = [wpc EXCEPT ![w] = "loop"]
                /\ w_in' = [w_in EXCEPT ![w] = NoBuf]
                /\ UNCHANGED <<heap, dblfree, mapped, ctr, w_out, accel_err>>
           [] outcome = "exception" ->
                /\ heap' = Unref(heap, w_in[w])
                /\ dblfree' = OverRelease(heap, dblfree, w_in[w])
                /\ ctr' = FetchAdd(ctr, "processing_errors", 1)
                /\ w_in' = [w_in EXCEPT ![w] = NoBuf]
                /\ wpc' = [wpc EXCEPT ![w] = "loop"]
                /\ UNCHANGED <<mapped, w_out, accel_err>>
           [] outcome = "out_alloc_failed" ->
                /\ DropInput(w, w_in[w], "processing_errors")
                /\ UNCHANGED <<w_out, accel_err>>
           [] outcome = "out_map_failed" ->
                /\ heap' = Unref(Unref(Allocate(heap, OutBuf(w_in[w]),
                                                NeedSize(video_info)),
                                       OutBuf(w_in[w])), w_in[w])
                /\ dblfree' = OverRelease(heap, dblfree, w_in[w])
                /\ mapped' = mapped \ {w_in[w]}
                /\ ctr' = FetchAdd(ctr, "processing_errors", 1)
                /\ w_in' = [w_in EXCEPT ![w] = NoBuf]
                /\ wpc' = [wpc EXCEPT ![w] = "loop"]
                /\ UNCHANGED <<w_out, accel_err>>
           [] outcome \in {"ok", "cl_error_ignored"} ->
                /\ heap' = Unref(Compose(
                              Allocate(heap, OutBuf(w_in[w]),
                                       NeedSize(video_info)),
                              OutBuf(w_in[w]),
                              IF outcome = "ok"
                              THEN Equalized(heap[w_in[w]].y)
                              ELSE UninitPlane), w_in[w])
                /\ dblfree' = OverRelease(heap, dblfree, w_in[w])
                /\ mapped' = mapped \ {w_in[w]}
                /\ w_out' = [w_out EXCEPT ![w] = OutBuf(w_in[w])]
                /\ w_in' = [w_in EXCEPT ![w] = NoBuf]
                /\ wpc' = [wpc EXCEPT ![w] = "push"]
                /\ accel_err' = [accel_err EXCEPT ![w] =
                                   IF outcome = "ok" THEN "CL_SUCCESS"
                                   ELSE "CL_ERROR"]
                /\ ctr' = Checkpoint(ctr, "processed_frames",
                                     "processed_bytes", NeedSize(video_info))
    /\ UNCHANGED <<mainVars, capVars, statusVars, videoVars, queueVars,
                   sinkq, ctx>>
    /\ UNCHANGED <<clahe, rtc>>

\* gst_app_src_push_buffer takes the caller's reference whatever it returns:
\* on GST_FLOW_OK appsrc keeps the buffer, otherwise appsrc has already
\* released it.  On a result other than OK the worker adds one to
\* push_failures and calls gst_buffer_unref(outbuf) itself, on a buffer that
\* is already destroyed: the call logs a critical and returns, or it works on
\* freed memory and the process aborts.
PushResults == {"GST_FLOW_OK", "GST_FLOW_FLUSHING"}

WorkerPush(w) ==
    /\ wpc[w] = "push"
    /\ \E ret \in PushResults, survives \in BOOLEAN :
         Fault(IF ret = "GST_FLOW_OK" THEN 0 ELSE 1) /\
         IF ret = "GST_FLOW_OK"
         THEN /\ survives
              /\ sinkq' = Append(sinkq, w_out[w])
              /\ wpc' = [wpc EXCEPT ![w] = "loop"]
              /\ UNCHANGED <<heap, dblfree, ctr, main_pc, cap_pc,
                             sink_playing, src_playing>>
         ELSE /\ heap' = Unref(Unref(heap, w_out[w]), w_out[w])
              /\ dblfree' = OverRelease(Unref(heap, w_out[w]), dblfree,
                                        w_out[w])
              /\ ctr' = FetchAdd(ctr, "push_failures", 1)
              /\ sinkq' = sinkq
              /\ IF survives
                 THEN /\ wpc' = [wpc EXCEPT ![w] = "loop"]
                      /\ UNCHANGED <<main_pc, cap_pc, sink_playing,
                                     src_playing>>
                 ELSE ProcessAbort
    /\ w_out' = [w_out EXCEPT ![w] = NoBuf]
    /\ accel_err' = [accel_err EXCEPT ![w] = "CL_SUCCESS"]
    /\ UNCHANGED <<main_i, num_workers, shared_opencl, stop,
                   shared_initialized,
                   contexts_allocated, q_live, cap_buf, cb_ret, nextFrame,
                   frame_size, caps, lastFrame, statusVars, videoVars,
                   queueVars, mapped,
                   w_in, ctx>>
    /\ UNCHANGED <<clahe, rtc>>

\* ------------------------------------------- streaming pipeline behind appsrc
\* The oldest buffer appsrc holds goes to q_after_src (leaky=downstream),
\* which drops it or passes it on through probe_after_appsrc_queue and
\* probe_encoder_sink; the encoder consumes it.
SinkDeliver ==
    /\ src_playing
    /\ sinkq # <<>>
    /\ \/ Fault(1) /\ ctr' = ctr
       \/ /\ Fault(0)
          /\ ctr' = probe_encoder_sink(
                      probe_after_appsrc_queue(ctr, heap[Head(sinkq)].size),
                      heap[Head(sinkq)].size)
    /\ heap' = Unref(heap, Head(sinkq))
    /\ dblfree' = OverRelease(heap, dblfree, Head(sinkq))
    /\ sinkq' = Tail(sinkq)
    /\ UNCHANGED <<mainVars, capVars, workerVars, statusVars, videoVars,
                   queueVars, mapped>>
    /\ UNCHANGED <<clahe, rtc>>

\* ------------------------------------------------------------ status timer
BacklogThreshold == 5

\* the chain with the backlog test first
StatusByBacklog(opencl_errors, proc_errors, qlen, processed, prev_processed) ==
    IF qlen > BacklogThreshold THEN "QUEUE BACKLOG"
    ELSE IF opencl_errors > 0 THEN "FPGA ERRORS"
    ELSE IF proc_errors > 0 THEN "PROCESSING ERRORS"
    ELSE IF processed - prev_processed > 0 THEN "ACTIVE"
    ELSE "IDLE"
\* the if / else-if chain of status_tick that picks processing_status
ProcessingStatus(opencl_errors, proc_errors, qlen, processed, prev_processed) ==
    IF opencl_errors > 0 THEN "FPGA ERRORS"
    ELSE IF proc_errors > 0 THEN "PROCESSING ERRORS"
    ELSE IF qlen > BacklogThreshold THEN "QUEUE BACKLOG"
    ELSE IF processed - prev_processed > 0 THEN "ACTIVE"
    ELSE "IDLE"

\* a read that resets the counter, as std::atomic::exchange(0) would
ExchangeZero(c, k) == [c EXCEPT ![k] = 0]
\* std::atomic<uint64_t>::load(): the counters after the read of counter k
Load(c, k) == c

\* status_tick: runs on the GLib main loop, so only while main is inside
\* g_main_loop_run.  It loads seven counters and the queue length, picks the
\* status, prints, and stores the five prev_* values.
StatusTick ==
    /\ main_pc = "run"
    /\ ctr' = Load(Load(Load(Load(Load(Load(Load(ctr,
                 "cam_out_frames"), "appsink_in_frames"), "processed_frames"),
                 "encoder_in_frames"), "encoder_in_bytes"),
                 "processing_errors"), "opencl_errors")
    /\ status' = ProcessingStatus(ctr.opencl_errors, ctr.processing_errors,
                                  QLength(work_q), ctr.processed_frames,
                                  prev.processed)
    /\ prev' = [cam_out |-> ctr.cam_out_frames,
                apps_in |-> ctr.appsink_in_frames,
                processed |-> ctr.processed_frames,
                encoder_in |-> ctr.encoder_in_frames,
                encoder_bytes |-> ctr.encoder_in_bytes]
    /\ UNCHANGED <<mainVars, capVars, workerVars, videoVars, queueVars,
                   bufVars, sinkq, faults>>
    /\ UNCHANGED <<clahe, rtc>>

\* ------------------------------------------------------------------- main
\* What initialize_shared_opencl_context can do.  "no_device":
\* xcl::get_xil_devices() is empty, return false with nothing assigned.
\* "exception": device and context are assigned, then loading the binary
\* throws and a handler returns false.  "ok": device, context and program
\* are assigned, the flag is set, return true.
SharedInitOutcomes == {"ok", "no_device", "exception"}

\* devices[0]: the first device the platform lists, the same on every call
XilDevice == 1

\* cl::Context(...) and cl::Program(...) construct a new object on every
\* call; a handle is the number of the object among those made for the
\* field, NullHandle the default-constructed wrapper.
initialize_shared_opencl_context(s, outcome) ==
    CASE outcome = "no_device" -> s
      [] outcome = "exception" ->
            [s EXCEPT !.device = XilDevice, !.context = @ + 1]
      [] outcome = "ok" ->
            [s EXCEPT !.device = XilDevice, !.context = @ + 1,
                      !.program = @ + 1]

\* the value initialize_shared_opencl_context returns
SharedInitRet(outcome) == outcome = "ok"

\* a start-up that goes on whatever the session initialization returned
StartUpAnyway(ret) == "pipelines"
\* if (!initialize_shared_opencl_context(&d.shared_opencl)) return -1;
StartUp(ret) == IF ret THEN "pipelines" ELSE "aborted"

\* initialize_shared_opencl_context and, when main goes on, g_new0 of the
\* worker contexts.
MainInitShared ==
    /\ main_pc = "start"
    /\ \E outcome \in SharedInitOutcomes :
         /\ Fault(IF outcome = "ok" THEN 0 ELSE 1)
         /\ shared_opencl' =
                initialize_shared_opencl_context(shared_opencl, outcome)
         /\ shared_initialized' =
                (shared_initialized \/ SharedInitRet(outcome))
         /\ main_pc' = StartUp(SharedInitRet(outcome))
         /\ contexts_allocated' = (StartUp(SharedInitRet(outcome)) # "aborted")
    /\ UNCHANGED <<main_i, num_workers, stop, q_live, sink_playing,
                   src_playing, capVars, workerVars, statusVars, videoVars,
                   queueVars, bufVars, ctr, sinkq>>
    /\ UNCHANGED <<clahe, rtc>>

\* gst_parse_launch of both pipelines, the element lookups, the probes and
\* the new-sample signal; any failure returns -1.
MainPipelines ==
    /\ main_pc = "pipelines"
    /\ \E ok \in BOOLEAN :
         /\ Fault(IF ok THEN 0 ELSE 1)
         /\ main_pc' = IF ok THEN "spawn" ELSE "aborted"
    /\ main_i' = 0
    /\ UNCHANGED <<num_workers, shared_opencl, stop, shared_initialized,
                   contexts_allocated,
                   q_live, sink_playing, src_playing, capVars, workerVars,
                   statusVars, videoVars, queueVars, bufVars, ctr, sinkq>>
    /\ UNCHANGED <<clahe, rtc>>

\* one iteration of the thread creation loop: g_thread_new(worker_thread_fn)
MainSpawn ==
    /\ main_pc = "spawn"
    /\ main_i < num_workers
    /\ wpc' = [wpc EXCEPT ![main_i] = "init"]
    /\ main_i' = main_i + 1
    /\ UNCHANGED <<main_pc, num_workers, shared_opencl, faults, stop,
                   shared_initialized,
                   contexts_allocated, q_live, sink_playing, src_playing,
                   capVars, w_in, w_out, ctx, accel_err, statusVars,
                   videoVars, queueVars, bufVars, ctr, sinkq>>
    /\ UNCHANGED <<clahe, rtc>>

\* both pipelines to PLAYING, then g_main_loop_run
MainPlay ==
    /\ main_pc = "spawn"
    /\ main_i = num_workers
    /\ sink_playing' = TRUE
    /\ src_playing' = TRUE
    /\ main_pc' = "run"
    /\ UNCHANGED <<main_i, num_workers, shared_opencl, faults, stop,
                   shared_initialized,
                   contexts_allocated, q_live, capVars, workerVars,
                   statusVars, videoVars, queueVars, bufVars, ctr, sinkq>>
    /\ UNCHANGED <<clahe, rtc>>

\* bus_cb sees EOS or ERROR and quits the loop, g_main_loop_run returns and
\* main sets the flag: d.stop.store(true)
MainStop ==
    /\ main_pc = "run"
    /\ stop' = TRUE
    /\ main_pc' = "drain"
    /\ UNCHANGED <<main_i, num_workers, shared_opencl, faults,
                   shared_initialized,
                   contexts_allocated, q_live, sink_playing, src_playing,
                   capVars, workerVars, statusVars, videoVars, queueVars,
                   bufVars, ctr, sinkq>>
    /\ UNCHANGED <<clahe, rtc>>

\* while (b = g_async_queue_try_pop(work_q)) gst_buffer_unref(b): one
\* iteration, or the NULL that ends the loop
MainDrain ==
    /\ main_pc = "drain"
    /\ IF work_q # <<>>
       THEN /\ heap' = Unref(heap, Head(work_q))
            /\ dblfree' = OverRelease(heap, dblfree, Head(work_q))
            /\ popLog' = Append(popLog, Head(work_q))
            /\ work_q' = QPop(work_q)
            /\ UNCHANGED <<main_pc, main_i>>
       ELSE /\ main_pc' = "join"
            /\ main_i' = 0
            /\ UNCHANGED <<heap, dblfree, popLog, work_q>>
    /\ UNCHANGED <<num_workers, shared_opencl, faults, stop,
                   shared_initialized,
                   contexts_allocated,
                   q_live, sink_playing, src_playing, capVars, workerVars,
                   statusVars, videoVars, pushLog, lostLog, mapped, ctr,
                   sinkq>>
    /\ UNCHANGED <<clahe, rtc>>

\* a join that does not wait for the thread
JoinNoWait(i) == TRUE
\* g_thread_join(d.workers[i]) returns once worker i has returned
Joinable(i) == wpc[i] = "exited"

\* one iteration of the join loop
MainJoin ==
    /\ main_pc = "join"
    /\ main_i < num_workers
    /\ Joinable(main_i)
    /\ main_i' = main_i + 1
    /\ UNCHANGED <<main_pc, num_workers, shared_opencl, faults, stop,
                   shared_initialized,
                   contexts_allocated, q_live, sink_playing, src_playing,
                   capVars, workerVars, statusVars, videoVars, queueVars,
                   bufVars, ctr, sinkq>>
    /\ UNCHANGED <<clahe, rtc>>

\* cleanup_shared_opencl_context
cleanup_shared_opencl_context(initialized) ==
    IF initialized THEN FALSE ELSE initialized

\* after the join loop: cleanup_shared_opencl_context, then
\* g_free(d.worker_opencl_contexts) and g_free(worker_datas)
MainCleanup ==
    /\ main_pc = "join"
    /\ main_i = num_workers
    /\ shared_initialized' = cleanup_shared_opencl_context(shared_initialized)
    /\ contexts_allocated' = FALSE
    /\ main_pc' = "unref_queue"
    /\ UNCHANGED <<main_i, num_workers, shared_opencl, faults, stop, q_live,
                   sink_playing, src_playing, capVars, workerVars,
                   statusVars, videoVars,
                   queueVars, bufVars, ctr, sinkq>>
    /\ UNCHANGED <<clahe, rtc>>

\* g_async_queue_unref(d.work_q); d.work_q = nullptr.  The queue was made by
\* g_async_queue_new, without an item free function: what it still holds is
\* not released.
MainUnrefQueue ==
    /\ main_pc = "unref_queue"
    /\ q_live' = FALSE
    /\ main_pc' = "set_null"
    /\ UNCHANGED <<main_i, num_workers, shared_opencl, faults, stop,
                   shared_initialized,
                   contexts_allocated, sink_playing, src_playing, capVars,
                   workerVars, statusVars, videoVars, queueVars, bufVars,
                   ctr, sinkq>>
    /\ UNCHANGED <<clahe, rtc>>

\* the buffers appsrc still holds when src_pipe goes to NULL are released
RECURSIVE UnrefAll(_, _)
UnrefAll(h, q) == IF q = <<>> THEN h ELSE UnrefAll(Unref(h, Head(q)), Tail(q))

\* gst_element_set_state(NULL) on both pipelines: returns once the capture
\* streaming thread has left the callback
MainSetNull ==
    /\ main_pc = "set_null"
    /\ cap_pc = "idle"
    /\ sink_playing' = FALSE
    /\ src_playing' = FALSE
    /\ heap' = UnrefAll(heap, sinkq)
    /\ sinkq' = <<>>
    /\ main_pc' = "done"
    /\ UNCHANGED <<main_i, num_workers, shared_opencl, faults, stop,
                   shared_initialized,
                   contexts_allocated, q_live, capVars, workerVars,
                   statusVars, videoVars, queueVars, dblfree, mapped, ctr>>
    /\ UNCHANGED <<clahe, rtc>>

\* the positions of worker_thread_fn inside while (!d->stop.load())
RunningPcs == {"loop", "pop", "accel", "push"}

\* every step worker w can take
WorkerStep(w) ==
    \/ WorkerInit(w)
    \/ WorkerLoop(w)
    \/ WorkerPop(w)
    \/ WorkerAccel(w)
    \/ WorkerPush(w)

\* ---------------------------------------------------------- specification
Next ==
    \/ CaptureFrame
    \/ NewSampleCbPush
    \/ NewSampleCbCount
    \/ \E w \in Workers : WorkerInit(w)
    \/ \E w \in Workers : WorkerLoop(w)
    \/ \E w \in Workers : WorkerPop(w)
    \/ \E w \in Workers : WorkerAccel(w)
    \/ \E w \in Workers : WorkerPush(w)
    \/ SinkDeliver
    \/ MainInitShared
    \/ MainPipelines
    \/ MainSpawn
    \/ MainPlay
    \/ MainStop
    \/ MainDrain
    \/ MainJoin
    \/ MainCleanup
    \/ MainUnrefQueue
    \/ MainSetNull

Spec == Init /\ [][Next]_vars

\* The same program under the scheduling the threads get: a worker thread
\* that can take a step takes it (the timed pop returns after 50 ms at the
\* latest), main goes through its shutdown sequence once g_main_loop_run has
\* returned, and the capture streaming thread finishes a callback it is in.
SpecLive ==
    /\ Spec
    /\ \A w \in Workers : WF_vars(WorkerStep(w))
    /\ WF_vars(MainDrain \/ MainJoin \/ MainCleanup \/ MainUnrefQueue
                \/ MainSetNull)
    /\ WF_vars(NewSampleCbPush \/ NewSampleCbCount)

\* The same program with one worker, for each of the geometries and a camera
\* that delivers buffers one byte short of the need, exact, or one byte over.
InitGeom ==
    /\ InitState
    /\ clahe = ClaheStart(FALSE)
    /\ rtc = RtcStart("sender.cpp")
    /\ num_workers = 1
    /\ caps \in Geometries
    /\ frame_size \in GeomFrameSizes(caps)
    /\ lastFrame = MaxFrames

SpecGeom == InitGeom /\ [][Next]_vars

\* The caps a sample carries are whatever the capture pipeline negotiated
\* for it (gst_sample_get_caps): between two frames the geometry may
\* change, and with it the payload size of the frames that follow.
Renegotiate ==
    /\ sink_playing
    /\ cap_pc = "idle"
    /\ nextFrame <= lastFrame
    /\ caps' \in Geometries \ {caps}
    /\ frame_size' = NeedSize(caps')
    /\ UNCHANGED <<mainVars, workerVars, statusVars, videoVars, queueVars,
                   bufVars, ctr, sinkq, faults, cap_pc, cap_buf, cb_ret,
                   nextFrame, lastFrame>>
    /\ UNCHANGED <<clahe, rtc>>

\* one worker, with the geometry of the samples changing between frames
NextCaps == Next \/ Renegotiate
SpecCaps == InitGeom /\ [][NextCaps]_vars

\* the same program with the status timer running
NextStatus == Next \/ StatusTick
SpecStatus == Init /\ [][NextStatus]_vars
\* the status timer running beside a single worker (--workers=1)
InitSingle == Init /\ num_workers = 1
SpecStatusSingle == InitSingle /\ [][NextStatus]_vars

\* The session operations on their own, called in any order on d.shared_opencl
\* as main's CustomData d{} holds it: initialize, with any of its outcomes,
\* and cleanup.
SessionInitialize ==
    /\ shared_opencl.context < MaxSessionCalls
    /\ \E outcome \in SharedInitOutcomes :
         /\ shared_opencl' =
                initialize_shared_opencl_context(shared_opencl, outcome)
         /\ shared_initialized' =
                (shared_initialized \/ SharedInitRet(outcome))
    /\ UNCHANGED <<main_pc, main_i, num_workers, stop, contexts_allocated,
                   q_live, sink_playing, src_playing, capVars, workerVars,
                   statusVars, videoVars, queueVars, bufVars, ctr, sinkq,
                   faults>>
    /\ UNCHANGED <<clahe, rtc>>

SessionCleanup ==
    /\ shared_initialized' = cleanup_shared_opencl_context(shared_initialized)
    /\ UNCHANGED <<main_pc, main_i, num_workers, stop, shared_opencl,
                   contexts_allocated, q_live, sink_playing, src_playing,
                   capVars, workerVars, statusVars, videoVars, queueVars,
                   bufVars, ctr, sinkq, faults>>
    /\ UNCHANGED <<clahe, rtc>>

NextSession == SessionInitialize \/ SessionCleanup
SpecSession == Init /\ [][NextSession]_vars

\* allocate_worker_opencl_buffers on its own, called again and again on the
\* context of worker 0 for frames of any of the geometries (video_info is
\* the geometry of the frame the call is made for) and with any results of
\* its three clCreateBuffer calls.
MaxAllocCalls == 4

AllocateBuffers ==
    /\ FreshMem(ctx[ContextOf(0)]) <= MaxAllocCalls
    /\ \E g \in Geometries, made \in CreateResults :
         /\ video_info' = g
         /\ ctx' = [ctx EXCEPT ![ContextOf(0)] =
                      allocate_worker_opencl_buffers(@, YSize(g),
                                                     FreshMem(@), made)]
    /\ video_info_valid' = TRUE
    /\ UNCHANGED <<mainVars, capVars, statusVars, queueVars, bufVars, ctr,
                   sinkq, faults, wpc, w_in, w_out, accel_err, clahe,
                   rtc>>

SpecAlloc == Init /\ [][AllocateBuffers]_vars

\* A state main's loop can be in while it runs: n frames captured and
\* enqueued, of which the workers have delivered p, had pf rejected by
\* appsrc, lost ep to a failed gst_buffer_map and ec to a failed device
\* allocation, and q still wait in the transfer queue.  With busy, every
\* worker is inside the accelerator round trip of one more frame; else every
\* worker is at its loop test.  The camera has `more' frames to come.
\* Frames are numbered in capture order; the first p + pf have an output
\* buffer.
Snapshot(q, p, pf, ep, ec, busy, more) ==
    LET h == p + pf + ep + ec
        held == IF busy THEN num_workers ELSE 0
        n == h + held + q
        size == NeedSize(Geometry)
        outs == {OutBuf(f) : f \in 1..(p + pf)}
    IN  /\ main_pc = "run"
        /\ main_i = num_workers
        /\ clahe = ClaheStart(FALSE)
        /\ rtc = RtcStart("sender.cpp")
        /\ stop = FALSE
        /\ shared_initialized = TRUE
        /\ shared_opencl = initialize_shared_opencl_context(NoSession, "ok")
        /\ contexts_allocated = TRUE
        /\ q_live = TRUE
        /\ sink_playing = TRUE
        /\ src_playing = TRUE
        /\ cap_pc = "idle"
        /\ cap_buf = NoBuf
        /\ cb_ret = IF n > 0 THEN "GST_FLOW_OK" ELSE "NONE"
        /\ nextFrame = n + 1
        /\ lastFrame = n + more
        /\ frame_size = size
        /\ caps = Geometry
        /\ video_info_valid = (n > 0)
        /\ video_info = IF n > 0 THEN Geometry ELSE NoVideoInfo
        /\ wpc = [w \in Workers |->
                    IF w >= num_workers THEN "none"
                    ELSE IF busy THEN "accel" ELSE "loop"]
        /\ w_in = [w \in Workers |-> IF w < held THEN h + 1 + w ELSE NoBuf]
        /\ w_out = [w \in Workers |-> NoBuf]
        /\ ctx = [w \in Workers |->
                    IF w < held \/ (w = 0 /\ p + pf > 0)
                    THEN allocate_worker_opencl_buffers(
                             [ZeroedContext EXCEPT !.initialized = TRUE],
                             YSize(Geometry), FreshMem(ZeroedContext),
                             AllCreated)
                    ELSE [ZeroedContext EXCEPT
                            !.initialized = w < num_workers]]
        /\ accel_err = [w \in Workers |-> "CL_SUCCESS"]
        /\ heap = [b \in (1..n) \cup outs |->
                     IF b > h
                     THEN [refs |-> 1, size |-> size,
                           y |-> <<"Y", b>>, uv |-> CameraChroma(b),
                           pts |-> b, dts |-> b, duration |-> 1]
                     ELSE Freed([size |-> size])]
        /\ dblfree = {OutBuf(f) : f \in (p + 1)..(p + pf)}
        /\ mapped = (h + 1)..(h + held)
        /\ sinkq = <<>>
        /\ work_q = [i \in 1..q |-> n - q + i]
        /\ pushLog = [i \in 1..n |-> i]
        /\ popLog = [i \in 1..(n - q) |-> i]
        /\ lostLog = <<>>
        /\ faults = pf + ep + ec
        /\ ctr = [k \in CounterNames |->
                    CASE k \in {"cam_out_frames", "qcam_out_frames",
                                "appsink_in_frames", "enqueued_frames"} -> n
                      [] k \in {"cam_out_bytes", "qcam_out_bytes",
                                "appsink_in_bytes", "enqueued_bytes"}
                            -> n * size
                      [] k = "processed_frames" -> p + pf
                      [] k = "processed_bytes" -> (p + pf) * size
                      [] k \in {"after_src_frames", "encoder_in_frames"} -> p
                      [] k \in {"after_src_bytes", "encoder_in_bytes"}
                            -> p * size
                      [] k = "push_failures" -> pf
                      [] k = "processing_errors" -> ep
                      [] k = "opencl_errors" -> ec]
        /\ prev = [cam_out |-> 0, apps_in |-> 0, processed |-> 0,
                   encoder_in |-> 0, encoder_bytes |-> 0]
        /\ status = "NONE"

\* The status timer on its own, on the states it can find when it fires
\* with every worker at its loop test.
TickState(q, p, pf, ep, ec) == Snapshot(q, p, pf, ep, ec, FALSE, 0)

InitTick ==
    /\ num_workers \in 1..MaxWorkers
    /\ \E q \in 0..MaxBacklog, p, pf, ep, ec \in 0..MaxHandled :
         TickState(q, p, pf, ep, ec)

SpecTick == InitTick /\ [][StatusTick]_vars

\* Every worker stalled inside its accelerator call (no worker takes a step)
\* while the camera goes on delivering frames and the status timer fires.
InitStall ==
    /\ num_workers \in 1..MaxWorkers
    /\ \E p, pf, ep, ec \in 0..MaxHandled :
         Snapshot(0, p, pf, ep, ec, TRUE, MaxBacklog)

NextStall ==
    \/ CaptureFrame
    \/ NewSampleCbPush
    \/ NewSampleCbCount
    \/ StatusTick

SpecStall == InitStall /\ [][NextStall]_vars

\* ------------------------------------- the file-processing program's steps
relayVars == <<mainVars, capVars, workerVars, statusVars, videoVars,
               queueVars, bufVars, ctr, sinkq, faults>>

\* new_sample_cb of the file program: the input pipeline delivers the next
\* frame of the file; unless the sample cannot be pulled, the frame is
\* counted, stamped with current_timestamp and pushed to appsrc.
ClaheNewSampleCb ==
    /\ clahe.pc # "null"
    /\ ~clahe.in_eos
    /\ clahe.pos < FileFrames
    /\ \E pulled \in BOOLEAN :
         clahe' = IF pulled
                  THEN [clahe EXCEPT
                          !.pos = @ + 1, !.frame_count = @ + 1,
                          !.current_timestamp = @ + FrameDuration]
                  ELSE [clahe EXCEPT !.pos = @ + 1]
    /\ UNCHANGED <<relayVars, rtc>>

\* The input pipeline reaches the end of the file: sink_pipeline posts EOS
\* on its bus.
SinkPipelineEos ==
    /\ clahe.pc # "null"
    /\ ~clahe.in_eos
    /\ clahe.pos = FileFrames
    /\ ~clahe.loop_playback \/ clahe.seeks < MaxSeeks
    /\ clahe' = [clahe EXCEPT
                   !.in_eos = TRUE,
                   !.sink_bus = Append(@, <<"EOS", "sink_pipeline">>)]
    /\ UNCHANGED <<relayVars, rtc>>

\* After gst_app_src_end_of_stream the output pipeline drains, finalizes the
\* file and posts EOS on its bus.
SrcPipelineEos ==
    /\ clahe.pc # "null"
    /\ clahe.appsrc_eos
    /\ ~clahe.out_eos
    /\ clahe' = [clahe EXCEPT
                   !.out_eos = TRUE,
                   !.src_bus = Append(@, <<"EOS", "src_pipeline">>)]
    /\ UNCHANGED <<relayVars, rtc>>

\* Any other message bus_message_cb has a case for arrives on one of the
\* buses: an ERROR or a WARNING of an element, a STATE_CHANGED of a pipeline
\* or an element, an EOS whose source is neither pipeline.
PostMessage ==
    /\ clahe.pc # "null"
    /\ clahe.posted < MaxPosted
    /\ \E bus \in {"sink_bus", "src_bus"},
          type \in {"EOS", "ERROR", "WARNING", "STATE_CHANGED"},
          src \in {"sink_pipeline", "src_pipeline", "element"} :
         /\ type # "STATE_CHANGED" => src = "element"
         /\ clahe' = [clahe EXCEPT
                        ![bus] = Append(@, <<type, src>>),
                        !.posted = @ + 1,
                        !.errors = IF type = "ERROR" THEN @ + 1 ELSE @]
    /\ UNCHANGED <<relayVars, rtc>>

\* The main loop dispatches the oldest message of one bus to bus_message_cb.
BusMessageCb ==
    /\ clahe.pc = "run"
    /\ \E bus \in {"sink_bus", "src_bus"}, seek_ok \in BOOLEAN :
         /\ clahe[bus] # <<>>
         /\ seek_ok \/ (/\ Head(clahe[bus]) = <<"EOS", "sink_pipeline">>
                        /\ clahe.loop_playback)
         /\ clahe' = bus_message_cb([clahe EXCEPT ![bus] = Tail(@)],
                                    Head(clahe[bus])[1], Head(clahe[bus])[2],
                                    seek_ok)
    /\ UNCHANGED <<relayVars, rtc>>

\* main after g_main_loop_run has returned: the buses are unreferenced and
\* both pipelines set to GST_STATE_NULL.
ClaheCleanup ==
    /\ clahe.pc = "quit"
    /\ clahe' = [clahe EXCEPT !.pc = "null", !.sink_bus = <<>>,
                              !.src_bus = <<>>]
    /\ UNCHANGED <<relayVars, rtc>>

InitFile ==
    /\ InitState
    /\ num_workers = 1
    /\ caps = Geometry
    /\ frame_size = NeedSize(Geometry)
    /\ lastFrame = MaxFrames
    /\ \E loop_playback \in BOOLEAN : clahe = ClaheStart(loop_playback)
    /\ rtc = RtcStart("sender.cpp")

NextFile ==
    \/ ClaheNewSampleCb
    \/ SinkPipelineEos
    \/ SrcPipelineEos
    \/ PostMessage
    \/ BusMessageCb
    \/ ClaheCleanup

SpecFile == InitFile /\ [][NextFile]_vars

\* ----------------------------------------- sender.cpp (App, offer_sent guard)
\* on-negotiation-needed emissions and receiver-joined messages of a run
MaxNegotiations == 2
MaxMessages == 2

\* safe_ws_send for the offer message: nothing is written unless ws_conn is
\* set and its state is SOUP_WEBSOCKET_STATE_OPEN
safe_ws_send(r) ==
    IF r.ws # "open" THEN [r EXCEPT !.dropped = @ + 1]
    ELSE [r EXCEPT !.sent = @ + 1]
\* create_and_send_offer: if (!ws_ready || offer_sent) return; else a promise
\* with on_offer_created as change function goes to create-offer
create_and_send_offer(r) ==
    IF ~r.ws_ready \/ r.offer_sent THEN r
    ELSE [r EXCEPT !.pending = @ + 1, !.requests = @ + 1]
\* on_negotiation_needed: if (!ws_ready) return; create_and_send_offer
on_negotiation_needed(r) ==
    IF ~r.ws_ready THEN r ELSE create_and_send_offer(r)
\* on_offer_created: set-local-description, the offer message through
\* send_json_obj and safe_ws_send, then offer_sent = true
on_offer_created(r) ==
    [safe_ws_send([r EXCEPT !.pending = @ - 1]) EXCEPT !.offer_sent = TRUE]
\* the message types on_ws_message tells apart
WsMessageTypes == {"connected", "joined", "receiver-joined", "answer"}
\* on_ws_message: receiver-joined asks for an offer if none was sent
on_ws_message(r, type) ==
    IF type = "receiver-joined" /\ r.ws_ready /\ ~r.offer_sent
    THEN create_and_send_offer(r) ELSE r
\* on_ws_open: a failed connect quits the loop; else ws_ready = true,
\* send_join, pipeline to PLAYING, create_and_send_offer
on_ws_open(r, connected) ==
    IF ~connected THEN [r EXCEPT !.ws = "failed", !.quit = TRUE]
    ELSE create_and_send_offer([r EXCEPT !.ws = "open", !.ws_ready = TRUE,
                                         !.pipeline = "PLAYING"])
\* on_ws_closed: ws_ready = false
on_ws_closed(r) == [r EXCEPT !.ws = "closed", !.ws_ready = FALSE]

\* soup_session_websocket_connect_async completes
OnWsOpen ==
    /\ rtc.prog = "sender.cpp" /\ ~rtc.quit
    /\ rtc.ws = "connecting"
    /\ \E connected \in BOOLEAN : rtc' = on_ws_open(rtc, connected)
    /\ UNCHANGED <<relayVars, clahe>>

\* webrtcbin emits on-negotiation-needed
OnNegotiationNeeded ==
    /\ rtc.prog = "sender.cpp" /\ ~rtc.quit
    /\ rtc.negotiations < MaxNegotiations
    /\ rtc' = on_negotiation_needed([rtc EXCEPT !.negotiations = @ + 1])
    /\ UNCHANGED <<relayVars, clahe>>

\* a text message arrives on the open connection
OnWsMessage ==
    /\ rtc.prog = "sender.cpp" /\ ~rtc.quit
    /\ rtc.ws = "open"
    /\ rtc.messages < MaxMessages
    /\ \E type \in WsMessageTypes :
         rtc' = on_ws_message([rtc EXCEPT !.messages = @ + 1], type)
    /\ UNCHANGED <<relayVars, clahe>>

\* webrtcbin answers one create-offer promise
OnOfferCreated ==
    /\ rtc.prog = "sender.cpp" /\ ~rtc.quit
    /\ rtc.pending > 0
    /\ rtc' = on_offer_created(rtc)
    /\ UNCHANGED <<relayVars, clahe>>

\* the signaling server or the network closes the connection
OnWsClosed ==
    /\ rtc.prog = "sender.cpp" /\ ~rtc.quit
    /\ rtc.ws = "open"
    /\ rtc' = on_ws_closed(rtc)
    /\ UNCHANGED <<relayVars, clahe>>

\* bus_cb sees an error or EOS and quits the loop; main sets the pipeline
\* to NULL
SenderQuit ==
    /\ rtc.prog = "sender.cpp" /\ ~rtc.quit
    /\ rtc' = [rtc EXCEPT !.quit = TRUE, !.pipeline = "NULL"]
    /\ UNCHANGED <<relayVars, clahe>>

InitSender ==
    /\ InitState
    /\ num_workers = 1
    /\ caps = Geometry
    /\ frame_size = NeedSize(Geometry)
    /\ lastFrame = MaxFrames
    /\ clahe = ClaheStart(FALSE)
    /\ rtc = RtcStart("sender.cpp")

NextSender ==
    \/ OnWsOpen
    \/ OnNegotiationNeeded
    \/ OnWsMessage
    \/ OnOfferCreated
    \/ OnWsClosed
    \/ SenderQuit

SpecSender == InitSender /\ [][NextSender]_vars

\* ------------------------------------ vad.cpp and vadcamera.cpp (globals)
\* the two programs with the same handlers
VadPrograms == {"vad.cpp", "vadcamera.cpp"}

\* send_json_message for the offer message: if (!ws_conn) it prints
\* "WebSocket not connected" and returns; on a connection that is no longer
\* open soup_websocket_connection_send_text writes nothing
send_json_message(r) ==
    IF r.ws \in {"connecting", "failed"} THEN [r EXCEPT !.dropped = @ + 1]
    ELSE IF r.ws # "open" THEN [r EXCEPT !.dropped = @ + 1]
    ELSE [r EXCEPT !.sent = @ + 1]
\* on_negotiation_needed of vad.cpp: a promise goes to create-offer,
\* whatever the state of the connection
vad_on_negotiation_needed(r) ==
    [r EXCEPT !.pending = @ + 1, !.requests = @ + 1]
\* on_offer_created of vad.cpp: set-local-description, then the offer
\* message through send_json_message
vad_on_offer_created(r) == send_json_message([r EXCEPT !.pending = @ - 1])
\* on_websocket_connected: ws_conn is set, or the loop is quit on an error
on_websocket_connected(r, connected) ==
    IF ~connected THEN [r EXCEPT !.ws = "failed", !.quit = TRUE]
    ELSE [r EXCEPT !.ws = "open"]

\* soup_session_websocket_connect_async completes: only once main is
\* inside g_main_loop_run, after gst_element_set_state(PLAYING)
OnWebsocketConnected ==
    /\ rtc.prog \in VadPrograms /\ ~rtc.quit
    /\ rtc.ws = "connecting"
    /\ \E connected \in BOOLEAN : rtc' = on_websocket_connected(rtc, connected)
    /\ UNCHANGED <<relayVars, clahe>>

\* webrtcbin, in a PLAYING pipeline, emits on-negotiation-needed
VadNegotiationNeeded ==
    /\ rtc.prog \in VadPrograms /\ ~rtc.quit
    /\ rtc.pipeline = "PLAYING"
    /\ rtc.negotiations < MaxNegotiations
    /\ rtc' = vad_on_negotiation_needed([rtc EXCEPT !.negotiations = @ + 1])
    /\ UNCHANGED <<relayVars, clahe>>

\* webrtcbin answers one create-offer promise
VadOfferCreated ==
    /\ rtc.prog \in VadPrograms /\ ~rtc.quit
    /\ rtc.pending > 0
    /\ rtc' = vad_on_offer_created(rtc)
    /\ UNCHANGED <<relayVars, clahe>>

\* a text message arrives on the open connection (on_message)
VadMessage ==
    /\ rtc.prog \in VadPrograms /\ ~rtc.quit
    /\ rtc.ws = "open"
    /\ rtc.messages < MaxMessages
    /\ rtc' = [rtc EXCEPT !.messages = @ + 1]
    /\ UNCHANGED <<relayVars, clahe>>

\* the "closed" handler: g_main_loop_quit
VadWsClosed ==
    /\ rtc.prog \in VadPrograms /\ ~rtc.quit
    /\ rtc.ws = "open"
    /\ rtc' = [rtc EXCEPT !.ws = "closed", !.quit = TRUE]
    /\ UNCHANGED <<relayVars, clahe>>

\* main after g_main_loop_run: gst_element_set_state(pipeline, NULL)
VadCleanup ==
    /\ rtc.prog \in VadPrograms /\ rtc.quit
    /\ rtc.pipeline # "NULL"
    /\ rtc' = [rtc EXCEPT !.pipeline = "NULL"]
    /\ UNCHANGED <<relayVars, clahe>>

InitVad ==
    /\ InitState
    /\ num_workers = 1
    /\ caps = Geometry
    /\ frame_size = NeedSize(Geometry)
    /\ lastFrame = MaxFrames
    /\ clahe = ClaheStart(FALSE)
    /\ \E prog \in VadPrograms : rtc = RtcStart(prog)

NextVad ==
    \/ OnWebsocketConnected
    \/ VadNegotiationNeeded
    \/ VadOfferCreated
    \/ VadMessage
    \/ VadWsClosed
    \/ VadCleanup

SpecVad == InitVad /\ [][NextVad]_vars

\* ------------------------------------------------------------ ownership
SeqCount(q, b) == Cardinality({i \in 1..Len(q) : q[i] = b})

\* how many of the transfer queue, the workers and the downstream sink hold b
Owners(b) ==
    SeqCount(work_q, b) + SeqCount(sinkq, b)
    + Cardinality({w \in Workers : w_in[w] = b})
    + Cardinality({w \in Workers : w_out[w] = b})

\* the references to b other than the one the sample in the callback's hands
\* keeps until gst_sample_unref gives it back to the pool
PipelineRefs(b) == heap[b].refs - (IF cap_buf = b THEN 1 ELSE 0)

ErrorSum(c) == c.processing_errors + c.opencl_errors + c.push_failures

Spawned == 0..(num_workers - 1)

\* main is past the join loop and has run cleanup_shared_opencl_context
SessionCleaned == main_pc \in {"unref_queue", "set_null", "done"}

\* ------------------------------------------------------------------ claims

\* C1: once main's shutdown sequence has finished, no buffer that
\* new_sample_cb enqueued is still unreleased.
C1_NoLeakOnShutdown ==
    main_pc = "done" =>
        \A i \in 1..Len(pushLog) : heap[pushLog[i]].refs = 0

\* C2: the drain loop runs only after every worker thread has returned and
\* been joined; no worker is still in its loop while main drains.
C2_DrainAfterJoin ==
    main_pc = "drain" => \A w \in Spawned : wpc[w] = "exited"

\* C3: the shared session is cleaned up only after every worker thread has
\* been joined and the drain loop has run; no worker is initializing or
\* running while the session is already cleaned up.
C3_SessionLast ==
    (~shared_initialized /\ main_pc \notin {"start", "aborted"}) =>
        /\ \A w \in Workers : wpc[w] \in {"none", "exited"}
        /\ stop
        /\ SessionCleaned

C3_Witness ==
    /\ ~shared_initialized
    /\ main_pc = "unref_queue"
    /\ num_workers >= 2
    /\ ctr.processed_frames > 0

\* C4: no buffer has two owners among transfer queue, workers and downstream
\* sink, an owner's buffer is live, and no buffer is released more than once
\* (the output buffer on the push-rejected path included).
C4_OwnershipUnique ==
    /\ dblfree = {}
    /\ \A b \in DOMAIN heap :
         /\ Owners(b) <= 1
         /\ Owners(b) = 1 => PipelineRefs(b) >= 1

\* C5: a buffer pushed on the transfer queue is removed by at most one
\* consumer; two workers never hold the same buffer.
C5_ExactlyOneConsumer ==
    /\ \A i, j \in 1..Len(popLog) : i # j => popLog[i] # popLog[j]
    /\ \A v, w \in Workers :
         (v # w /\ w_in[v] # NoBuf) => w_in[v] # w_in[w]

C5_Witness ==
    /\ w_in[0] # NoBuf
    /\ w_in[1] # NoBuf
    /\ Len(popLog) >= 2

\* C6: buffers leave the transfer queue in the order they were pushed.
C6_FifoService ==
    /\ Len(popLog) <= Len(pushLog)
    /\ \A i \in 1..Len(popLog) : popLog[i] = pushLog[i]

C6_Witness ==
    /\ Len(popLog) >= 2
    /\ popLog[1] # popLog[2]

\* C7: whenever the callback holds a valid buffer and takes its enqueue
\* step, the buffer is appended to the transfer queue, whatever the queue
\* length and whatever the workers are doing.
C7_PushAlwaysAppends ==
    [][(cap_pc = "new_sample" /\ cap_pc' = "enqueued")
         => work_q' = Append(work_q, cap_buf)]_vars

\* C8: in every reachable state enqueued_frames >= processed_frames.
C8_EnqueuedGeProcessed ==
    ctr.enqueued_frames >= ctr.processed_frames

\* C9: no step decreases or resets any instrumentation counter.
C9_CounterMonotonic ==
    [][\A k \in CounterNames : ctr'[k] >= ctr[k]]_vars

C9_Witness ==
    /\ ctr.cam_out_frames >= 2
    /\ ctr.enqueued_frames >= 2
    /\ ctr.processed_frames >= 2
    /\ ctr.encoder_in_frames >= 1
    /\ ctr.push_failures >= 1

\* C10: for every buffer a worker dequeues, the iteration ends with an output
\* frame pushed to the downstream sink or with an error counter incremented.
C10_EveryFailureCounted ==
    [][\A w \in Workers :
         ( /\ wpc'[w] = "loop"
           /\ \/ wpc[w] = "pop" /\ popLog' # popLog
              \/ wpc[w] \in {"accel", "push"} )
         => \/ ErrorSum(ctr') > ErrorSum(ctr)
            \/ Len(sinkq') > Len(sinkq)]_vars

\* C11: a worker that is in its loop leaves it only at the loop test with the
\* stop flag set; a step that counts a per-frame failure puts the worker back
\* at the loop test, and no step of a worker ends the process.
C11_PerFrameErrorsNonFatal ==
    [][\A w \in Workers :
         wpc[w] \in RunningPcs =>
            /\ wpc'[w] \in RunningPcs \cup {"exited"}
            /\ wpc'[w] = "exited" => (wpc[w] = "loop" /\ stop)
            /\ (wpc'[w] # wpc[w] /\ ErrorSum(ctr') > ErrorSum(ctr))
                  => wpc'[w] = "loop"]_vars

\* C12: when the accelerator round trip of a frame fails, the worker's step
\* ends at the loop test with an error counter incremented, the input buffer
\* unmapped and released, and no output buffer on its way downstream.
C12_AcceleratorFailureHandled ==
    [][\A w \in Workers :
         ( /\ wpc[w] = "accel"
           /\ wpc'[w] # "accel"
           /\ accel_err'[w] = "CL_ERROR" \/ wpc'[w] = "loop" )
         => /\ wpc'[w] = "loop"
            /\ w_out'[w] = NoBuf
            /\ sinkq' = sinkq
            /\ ErrorSum(ctr') > ErrorSum(ctr)
            /\ w_in[w] \notin mapped'
            /\ heap'[w_in[w]].refs = heap[w_in[w]].refs - 1]_vars

\* C13: a frame gets one push attempt; when the sink rejects it, push_failures
\* goes up by exactly one, the output buffer is destroyed exactly once,
\* nothing is put back on the transfer queue and the worker continues.
C13_PushFailureAtMostOnce ==
    [][\A w \in Workers :
         (wpc[w] = "push" /\ wpc'[w] # "push" /\ sinkq' = sinkq)
         => /\ ctr'.push_failures = ctr.push_failures + 1
            /\ heap'[w_out[w]].refs = 0
            /\ dblfree' = dblfree
            /\ work_q' = work_q
            /\ w_out'[w] = NoBuf
            /\ wpc'[w] = "loop"]_vars

\* C14: once the stop flag is set, every worker thread that was created
\* returns from worker_thread_fn and main's join loop completes.
C14_StopTerminatesWorkers ==
    stop ~> ( /\ \A w \in Spawned : wpc[w] = "exited"
              /\ main_pc \in {"unref_queue", "set_null", "done"} )

C17_InitializeIdempotent ==
    [][(shared_initialized /\ shared_initialized')
         => shared_opencl' = shared_opencl]_vars

\* C18: with the cached geometry (width, height), the step that dequeues a
\* buffer smaller than width*height + (width*height) \div 2 releases it, adds
\* one to processing_errors and starts no output for it; the step that
\* dequeues a buffer of that size or larger, and in which neither the map nor
\* the device allocation fails, takes the buffer on to processing.  An output
\* buffer is only ever made for a frame that meets the threshold.
C18_GeometryThreshold ==
    [][/\ \A w \in Workers :
         ( /\ wpc[w] = "pop" /\ wpc'[w] # "pop" /\ popLog' # popLog
           /\ work_q # <<>> /\ video_info_valid )
         => LET b == Head(work_q)
                wh == video_info.width * video_info.height
            IN  /\ heap[b].size <= wh + (wh \div 2) - 1 =>
                      /\ wpc'[w] = "loop"
                      /\ w_in'[w] = NoBuf /\ w_out'[w] = NoBuf
                      /\ heap'[b].refs = heap[b].refs - 1
                      /\ b \notin mapped'
                      /\ ctr'.processing_errors = ctr.processing_errors + 1
                      /\ sinkq' = sinkq
                      /\ DOMAIN heap' = DOMAIN heap
                /\ (heap[b].size >= wh + (wh \div 2) /\ faults' = faults) =>
                      /\ wpc'[w] = "accel"
                      /\ w_in'[w] = b
                      /\ b \in mapped'
                      /\ ctr' = ctr
                      /\ heap' = heap
       /\ \A f \in DOMAIN heap :
            (OutBuf(f) \in DOMAIN heap' /\ OutBuf(f) \notin DOMAIN heap) =>
               heap[f].size >= video_info.width * video_info.height
                               + (video_info.width * video_info.height) \div 2
      ]_vars

C18_Witness ==
    /\ caps = [width |-> 1920, height |-> 1080]
    /\ ctr.processing_errors = 1
    /\ frame_size = 3110399
    /\ Len(popLog) = 1
    /\ faults = 0

\* C19: the state a status tick reports is the first that matches in the
\* order FPGA ERRORS (opencl_errors > 0), PROCESSING ERRORS
\* (processing_errors > 0), QUEUE BACKLOG (queue length > 5), ACTIVE
\* (processed_frames grew since the previous tick), IDLE.
C19_HealthPriority ==
    [][(status' # status \/ prev' # prev) =>
         /\ ctr.opencl_errors > 0 => status' = "FPGA ERRORS"
         /\ (ctr.opencl_errors = 0 /\ ctr.processing_errors > 0)
               => status' = "PROCESSING ERRORS"
         /\ ( /\ ctr.opencl_errors = 0 /\ ctr.processing_errors = 0
              /\ Len(work_q) > 5 )
               => status' = "QUEUE BACKLOG"
         /\ ( /\ ctr.opencl_errors = 0 /\ ctr.processing_errors = 0
              /\ Len(work_q) <= 5
              /\ ctr.processed_frames > prev.processed )
               => status' = "ACTIVE"
         /\ ( /\ ctr.opencl_errors = 0 /\ ctr.processing_errors = 0
              /\ Len(work_q) <= 5
              /\ ctr.processed_frames <= prev.processed )
               => status' = "IDLE"]_vars

C19_Witness ==
    /\ status = "QUEUE BACKLOG"
    /\ Len(work_q) = 6
    /\ ctr.processed_frames > 0
    /\ prev.processed = ctr.processed_frames

\* C20: a status tick that finds push_failures > 0 and no device-level error
\* reports PROCESSING ERRORS.
C20_PushFailuresAreProcessingErrors ==
    [][( /\ status' # status \/ prev' # prev
         /\ ctr.push_failures > 0
         /\ ctr.opencl_errors = 0 )
         => status' = "PROCESSING ERRORS"]_vars

\* C21: a status tick changes nothing but its own previous-sample values
\* and the status it reports: the transfer queue, the stop flag, every
\* counter, the cached video format, every worker's state, the buffers and
\* main's state are as before.
C21_StatusObservational ==
    [][(prev' # prev \/ status' # status) =>
         UNCHANGED <<work_q, stop, ctr, video_info_valid, video_info, wpc,
                     w_in, w_out, ctx, accel_err, heap, mapped, sinkq,
                     q_live, main_pc, num_workers, shared_initialized,
                     cap_pc, cap_buf>>]_vars

C21_Witness ==
    /\ status = "FPGA ERRORS"
    /\ prev.processed > 0
    /\ prev.cam_out > prev.processed
    /\ work_q # <<>>

\* every worker thread is inside its accelerator call
AllStalled == \A w \in Spawned : wpc[w] = "accel"

\* C22 as stated: while every worker is stalled inside its accelerator call,
\* every frame the callback enqueues makes the queue one longer, and a
\* status tick that finds more than 5 queued reports QUEUE BACKLOG.
C22_BacklogReported ==
    [][AllStalled =>
         /\ (cap_pc = "new_sample" /\ cap_pc' = "enqueued")
               => Len(work_q') = Len(work_q) + 1
         /\ Len(work_q') >= Len(work_q)
         /\ ((prev' # prev \/ status' # status) /\ Len(work_q) > 5)
               => status' = "QUEUE BACKLOG"]_vars

\* C22 amended: ... a status tick that finds more than 5 queued reports
\* QUEUE BACKLOG when opencl_errors and processing_errors are both 0, and
\* FPGA ERRORS or PROCESSING ERRORS, by their priority, when they are not.
C22_BacklogReportedUnlessErrors ==
    [][AllStalled =>
         /\ (cap_pc = "new_sample" /\ cap_pc' = "enqueued")
               => Len(work_q') = Len(work_q) + 1
         /\ Len(work_q') >= Len(work_q)
         /\ ((prev' # prev \/ status' # status) /\ Len(work_q) > 5)
               => status' = IF ctr.opencl_errors > 0 THEN "FPGA ERRORS"
                            ELSE IF ctr.processing_errors > 0
                            THEN "PROCESSING ERRORS"
                            ELSE "QUEUE BACKLOG"]_vars

C22_Witness ==
    /\ AllStalled
    /\ num_workers = MaxWorkers
    /\ Len(work_q) = 6
    /\ ctr.enqueued_frames = num_workers + 6
    /\ status = "QUEUE BACKLOG"

\* the output buffers the workers have made so far
Outputs == {b \in DOMAIN heap : b < 0}

\* C23: when stop is requested in a run of 2 workers with correctly sized
\* frames and no failure or drop so far, with the transfer queue empty and
\* every worker idle, then for the K buffers enqueued exactly K output
\* buffers have been made and pushed downstream, processed_frames = K and
\* processing_errors, opencl_errors and push_failures are 0.
C23_Conservation ==
    [][( /\ ~stop /\ stop'
         /\ num_workers = 2
         /\ frame_size >= NeedSize(caps)
         /\ faults = 0
         /\ work_q = <<>>
         /\ \A w \in Spawned : wpc[w] \in {"loop", "pop"} )
         => /\ Cardinality(Outputs) = Len(pushLog)
            /\ \A b \in Outputs : b \notin dblfree
            /\ \A w \in Workers : w_out[w] = NoBuf
            /\ Len(sinkq) + ctr.encoder_in_frames = Len(pushLog)
            /\ ctr.processed_frames = Len(pushLog)
            /\ ctr.processing_errors = 0
            /\ ctr.opencl_errors = 0
            /\ ctr.push_failures = 0]_vars

C23_Witness ==
    /\ main_pc = "drain"
    /\ num_workers = 2
    /\ faults = 0
    /\ work_q = <<>>
    /\ \A w \in Spawned : wpc[w] \in {"loop", "pop"}
    /\ Len(pushLog) = MaxFrames
    /\ ctr.processed_frames = MaxFrames
    /\ \A w \in Spawned : ctx[w].buffer_size = YSize(video_info)

\* C24: the transfer queue is served in enqueue order, yet two outputs can
\* wait at the downstream sink in the opposite order of their frames; that
\* happens only with two or more workers.
C24_OutputOrderNotGuaranteed ==
    /\ \A i \in 1..Len(popLog) : popLog[i] = pushLog[i]
    /\ \A i, j \in 1..Len(sinkq) :
         (i < j /\ FrameOf(sinkq[i]) > FrameOf(sinkq[j])) => num_workers >= 2

C24_Witness ==
    /\ num_workers >= 2
    /\ pushLog = <<1, 2>>
    /\ popLog = <<1, 2>>
    /\ sinkq = <<OutBuf(2), OutBuf(1)>>

\* C25: a step that changes worker context i is a step of worker i and
\* changes no other context; a worker that is alive has its context in an
\* array that has not been freed, and the array is freed only when every
\* worker that was created has returned.
C25_ContextExclusive ==
    [][/\ \A w \in Workers :
            /\ ctx'[w] # ctx[w] =>
                  /\ wpc'[w] # wpc[w]
                  /\ wpc[w] \in {"init", "loop", "pop"}
                  /\ \A v \in Workers \ {w} : ctx'[v] = ctx[v]
            /\ wpc'[w] \in {"init"} \cup RunningPcs => contexts_allocated'
       /\ (contexts_allocated /\ ~contexts_allocated') =>
            /\ \A w \in Workers : wpc[w] \in {"none", "exited"}
            /\ main_i = num_workers
      ]_vars

C25_Witness ==
    /\ ~contexts_allocated
    /\ main_pc = "unref_queue"
    /\ num_workers = 2
    /\ \A w \in Spawned : ctx[w].buffer_size = YSize(video_info)
    /\ ctr.processed_frames = 2

\* C26: the chroma plane of every output buffer at the downstream sink
\* equals the chroma plane of the input frame it was made for.
C26_ChromaPreserved ==
    \A i \in 1..Len(sinkq) :
        heap[sinkq[i]].uv = CameraChroma(FrameOf(sinkq[i]))

\* The input buffer worker w has dequeued and not yet let go of: the head of
\* the queue when the worker is at its pop, else the buffer it holds.
Dequeued(w) ==
    IF wpc[w] = "pop" /\ work_q # <<>> THEN Head(work_q) ELSE w_in[w]

DeviceBuffers(c) ==
    <<c.img_y_in_buffer, c.img_y_ref_buffer, c.img_y_out_buffer>>

\* C30: allocate_worker_opencl_buffers allocates device buffers only when
\* the context's buffer_size differs from the requested luma size or no
\* buffer exists yet; after the call buffer_size is the requested size; a
\* frame of the geometry the watermark already records causes no further
\* allocation.
C30_ReallocOnlyOnWatermarkChange ==
    [][/\ ctx'[0].buffer_size = YSize(video_info')
       /\ DeviceBuffers(ctx'[0]) # DeviceBuffers(ctx[0])
            => \/ ctx[0].buffer_size # YSize(video_info')
               \/ DeviceBuffers(ctx[0]) =
                    <<NullHandle, NullHandle, NullHandle>>
       /\ ctx[0].buffer_size = YSize(video_info')
            => DeviceBuffers(ctx'[0]) = DeviceBuffers(ctx[0])]_vars

\* C29: every output buffer pushed downstream has size y_size + uv_size, its
\* luma plane is the one the accelerator returned for the input frame, every
\* chroma byte is 128, and PTS, DTS and duration are GST_CLOCK_TIME_NONE.
C29_OutputComposition ==
    \A i \in 1..Len(sinkq) :
        /\ heap[sinkq[i]].size = YSize(video_info) + UVSize(video_info)
        /\ heap[sinkq[i]].y = Equalized(<<"Y", FrameOf(sinkq[i])>>)
        /\ heap[sinkq[i]].uv = NeutralChroma
        /\ heap[sinkq[i]].pts = ClockTimeNone
        /\ heap[sinkq[i]].dts = ClockTimeNone
        /\ heap[sinkq[i]].duration = ClockTimeNone

\* C27: in the file program without --loop, once the input EOS has been
\* handled end-of-stream has been signalled to appsrc, and in a run without
\* an ERROR message the main loop has been quit (and the pipelines torn
\* down) only if the output pipeline's EOS has been handled.
C27_WaitForOutputEos ==
    ~clahe.loop_playback
    => /\ clahe.got_in_eos => clahe.appsrc_eos
       /\ (clahe.pc # "run" /\ clahe.errors = 0) => clahe.got_out_eos

\* C31: a callback that pushes a buffer adds 1 to enqueued_frames and the
\* buffer's size to enqueued_bytes, a callback that gets no sample pushes
\* and counts nothing, no step of a worker changes either counter, and
\* whenever no callback is between its push and its counter update
\* enqueued_frames is the number of buffers ever pushed on the queue.
C31_EnqueuedTracksPushes ==
    /\ [](cap_pc \in {"idle", "new_sample"}
          => ctr.enqueued_frames = Len(pushLog))
    /\ [][/\ (cap_pc = "enqueued" /\ cap_pc' = "idle")
             => /\ ctr'.enqueued_frames = ctr.enqueued_frames + 1
                /\ ctr'.enqueued_bytes =
                     ctr.enqueued_bytes + heap[cap_buf].size
          /\ (cap_pc = "new_sample" /\ cap_pc' = "idle")
             => /\ pushLog' = pushLog
                /\ ctr'.enqueued_frames = ctr.enqueued_frames
                /\ ctr'.enqueued_bytes = ctr.enqueued_bytes
          /\ wpc' # wpc
             => /\ ctr'.enqueued_frames = ctr.enqueued_frames
                /\ ctr'.enqueued_bytes = ctr.enqueued_bytes]_vars

\* the shutdown drain loop of main has run to its end
DrainDone == main_pc \in {"join", "unref_queue", "set_null", "done"}

\* C32: the capture callback pushes no buffer once the shutdown drain loop
\* has run, and none once the queue has been released: the capture source
\* is quiescent before the queue is drained and unreferenced.
C32_NoEnqueueAfterDrain ==
    [][(cap_pc = "new_sample" /\ cap_pc' = "enqueued")
       => (~DrainDone /\ q_live)]_vars

\* C33: once the stop flag is set it stays set, a worker starts a timed pop
\* only from the loop test and only when it read the flag clear, and each
\* timed pop takes at most one buffer and ends; so after the flag is set a
\* worker dequeues at most the one buffer of the pop it was already in.
C33_BoundedWorkAfterStop ==
    [][/\ stop => stop'
       /\ \A w \in Workers :
            (wpc[w] # "pop" /\ wpc'[w] = "pop")
            => (wpc[w] = "loop" /\ ~stop)
       /\ popLog' # popLog
          => \/ main_pc = "drain" /\ wpc' = wpc
             \/ \E w \in Workers :
                  /\ wpc[w] = "pop" /\ wpc'[w] # "pop"
                  /\ \A v \in Workers \ {w} : wpc'[v] = wpc[v]
                  /\ popLog' = Append(popLog, Head(work_q))]_vars
\* the flag is set with a buffer still queued: one worker has left through
\* the loop test, another is finishing the buffer it had dequeued
C33_StopWithWorkLeft ==
    /\ stop /\ work_q # <<>>
    /\ \E w, v \in Workers :
         /\ wpc[w] = "exited" /\ ~ctx[ContextOf(w)].initialized
         /\ wpc[v] = "accel" /\ w_in[v] # NoBuf

\* input buffer g was pushed on the transfer queue before input buffer f
EnqueuedBefore(g, f) ==
    \E i, j \in 1..Len(pushLog) : i < j /\ pushLog[i] = g /\ pushLog[j] = f
\* input buffer g is queued or in a worker's hands: its downstream push, if
\* it gets one, is still to come
AwaitsPush(g) ==
    \/ SeqCount(work_q, g) > 0
    \/ \E w \in Workers : w_in[w] = g \/ w_out[w] = OutBuf(g)

\* C34: with exactly one worker the downstream push attempts come in the
\* order in which their input buffers were enqueued: when the push of a
\* frame is attempted no frame enqueued before it still awaits its push,
\* and the outputs waiting at the sink are in enqueue order.
C34_SingleWorkerOrder ==
    /\ [](num_workers = 1
          => \A i, j \in 1..Len(sinkq) :
               i < j => EnqueuedBefore(FrameOf(sinkq[i]), FrameOf(sinkq[j])))
    /\ [][num_workers = 1
          => \A w \in Workers :
               (wpc[w] = "push" /\ wpc'[w] # "push")
               => /\ SeqCount(pushLog, FrameOf(w_out[w])) = 1
                  /\ \A g \in DOMAIN heap :
                       EnqueuedBefore(g, FrameOf(w_out[w]))
                       => ~AwaitsPush(g)]_vars
\* one worker, two frames enqueued, both outputs accepted by the sink
C34_Witness ==
    /\ num_workers = 1
    /\ pushLog = <<1, 2>>
    /\ sinkq = <<OutBuf(1), OutBuf(2)>>

\* worker w makes its downstream push attempt in this step
PushAttempt(w) == w_out[w] # NoBuf /\ w_out'[w] = NoBuf

\* C35: processed_frames counts push attempts, not deliveries.  The counter
\* moves only by 1 and only when a worker goes on to its push; every push
\* attempt leaves it alone and either hands the buffer to the sink or adds
\* 1 to push_failures; nothing else moves push_failures or gives the sink
\* a buffer.  So with no worker between update and push processed_frames
\* is the number of attempts, push_failures <= processed_frames, and the
\* sink has accepted processed_frames - push_failures frames.
C35_ProcessedCountsAttempts ==
    /\ [](ctr.push_failures
            + Cardinality({w \in Workers : w_out[w] # NoBuf})
          <= ctr.processed_frames)
    /\ [][/\ \A w \in Workers :
               (w_out[w] = NoBuf /\ w_out'[w] # NoBuf)
               => ctr'.processed_frames = ctr.processed_frames + 1
          /\ ctr'.processed_frames # ctr.processed_frames
             => \E w \in Workers :
                  /\ w_out[w] = NoBuf /\ w_out'[w] # NoBuf
                  /\ \A v \in Workers \ {w} : w_out'[v] = w_out[v]
          /\ \A w \in Workers :
               PushAttempt(w)
               => /\ ctr'.processed_frames = ctr.processed_frames
                  /\ \/ /\ sinkq' = Append(sinkq, w_out[w])
                        /\ ctr'.push_failures = ctr.push_failures
                     \/ /\ sinkq' = sinkq
                        /\ ctr'.push_failures = ctr.push_failures + 1
          /\ (\A w \in Workers : ~PushAttempt(w))
             => /\ ctr'.push_failures = ctr.push_failures
                /\ Len(sinkq') <= Len(sinkq)]_vars
\* two attempts, one rejected and one accepted, no worker about to push
C35_Witness ==
    /\ ctr.processed_frames = 2
    /\ ctr.push_failures = 1
    /\ Len(sinkq) = 1
    /\ \A w \in Workers : w_out[w] = NoBuf

\* the statuses status_tick reports for an error
ErrorStatuses == {"FPGA ERRORS", "PROCESSING ERRORS"}

\* C36: the error states are sticky.  An error counter that is above 0
\* stays above 0; a status tick taken with opencl_errors > 0 reports FPGA
\* ERRORS and one taken with processing_errors > 0 reports an error state,
\* never QUEUE BACKLOG, ACTIVE or IDLE, whatever was processed since.
C36_ErrorStatesSticky ==
    [][/\ ctr.opencl_errors > 0 => ctr'.opencl_errors > 0
       /\ ctr.processing_errors > 0 => ctr'.processing_errors > 0
       /\ <<status, prev>>' # <<status, prev>>
          => /\ ctr.opencl_errors > 0 => status' = "FPGA ERRORS"
             /\ ctr.processing_errors > 0 => status' \in ErrorStatuses]_vars
\* frame 1 failed with an OpenCL error, frame 2 was then processed and
\* accepted by the sink, and the tick that saw it reported FPGA ERRORS
C36_Witness ==
    /\ ctr.opencl_errors > 0
    /\ popLog = <<1, 2>>
    /\ sinkq = <<OutBuf(2)>>
    /\ prev.processed = 1
    /\ status = "FPGA ERRORS"

\* C37: the video format is cached once.  video_info_valid, once TRUE, is
\* never reset and the cached geometry never changes; the flag is set only
\* by the capture callback, to the geometry of the sample it holds; a
\* callback enqueues with the flag still FALSE only when its attempt to
\* parse the caps failed; and a worker validates every frame against the
\* cached geometry and sizes its output by it.
C37_VideoInfoCachedOnce ==
    [][/\ video_info_valid
          => (video_info_valid' /\ video_info' = video_info)
       /\ (~video_info_valid /\ video_info_valid')
          => /\ cap_pc = "new_sample" /\ cap_pc' = "enqueued"
             /\ video_info' = caps
       /\ (cap_pc = "new_sample" /\ cap_pc' = "enqueued"
           /\ ~video_info_valid')
          => faults' = faults + 1
       /\ \A w \in Workers :
            /\ (wpc[w] = "pop" /\ wpc'[w] = "accel")
               => /\ video_info_valid
                  /\ heap[w_in'[w]].size >= NeedSize(video_info)
            /\ (wpc[w] = "accel" /\ wpc'[w] = "push")
               => heap'[w_out'[w]].size = NeedSize(video_info)]_vars
\* the geometry cached from frame 1 is the small one, the samples have
\* since changed to 1920x1080, and frame 2 of that size has passed the
\* worker's validation against the cached geometry
C37_Witness ==
    /\ video_info_valid
    /\ video_info = Geometry
    /\ caps = [width |-> 1920, height |-> 1080]
    /\ \E w \in Workers :
         /\ wpc[w] = "accel" /\ w_in[w] = 2
         /\ heap[2].size = NeedSize(caps)

\* C38: in the sender with the offer_sent guard at most one create-offer
\* request is issued and at most one offer message is sent, whatever the
\* order of the triggers, and no request is issued while ws_ready is false.
C38_AtMostOneOffer ==
    /\ [](rtc.requests <= 1 /\ rtc.sent <= 1)
    /\ [][rtc'.requests > rtc.requests => rtc'.ws_ready]_vars

\* C39: in vad.cpp and vadcamera.cpp every offer created for
\* on-negotiation-needed is sent over the WebSocket: none is created while
\* the connection is not yet established and dropped by send_json_message.
C39_NoOfferLost ==
    rtc.dropped = 0 /\ rtc.sent + rtc.pending = rtc.requests

====
